---- MODULE Spec2Model ----
(***************************************************************************)
(* A model of the swap repository's Vapor utility layer (unit conversion,  *)
(* network/address/transaction-raw validation, decode and submit over      *)
(* HTTP), of the refund CLI command that calls it, and of the claim and    *)
(* refund example scripts.                                                 *)
(*                                                                         *)
(* Python values are modelled by what the interpreter does with them:      *)
(*   - an int is an unbounded natural, kept as a sequence of base-10^4     *)
(*     limbs (least significant first, no leading zero limb), because the  *)
(*     amounts that matter exceed the model checker's machine integers;    *)
(*   - a float is an IEEE-754 binary64: a significand of at most 53 bits   *)
(*     times a power of two, every arithmetic result rounded to nearest,   *)
(*     ties to even, as CPython's int/int and float/float operations are;  *)
(*   - an exception is an outcome [kind |-> "raise", ...] of the call.     *)
(***************************************************************************)
EXTENDS Integers, Sequences, FiniteSets, TLC

(***************************************************************************)
(* Unbounded naturals.                                                     *)
(***************************************************************************)
Base == 100 * 100

RECURSIVE Trim(_)
Trim(x) ==
    IF x = <<>> THEN <<>>
    ELSE IF x[Len(x)] = 0 THEN Trim(SubSeq(x, 1, Len(x) - 1)) ELSE x

RECURSIVE NatOf(_)
NatOf(n) == IF n = 0 THEN <<>> ELSE <<n % Base>> \o NatOf(n \div Base)

Lo(x) == IF x = <<>> THEN 0 ELSE Head(x)
Hi(x) == IF x = <<>> THEN <<>> ELSE Tail(x)

RECURSIVE AddC(_, _, _)
AddC(x, y, c) ==
    IF x = <<>> /\ y = <<>> THEN (IF c = 0 THEN <<>> ELSE <<c>>)
    ELSE LET s == Lo(x) + Lo(y) + c
         IN  <<s % Base>> \o AddC(Hi(x), Hi(y), s \div Base)

Add(x, y) == AddC(x, y, 0)

\* x - y for x >= y.
RECURSIVE SubB(_, _, _)
SubB(x, y, b) ==
    IF x = <<>> THEN <<>>
    ELSE LET d == Lo(x) - Lo(y) - b
         IN  IF d < 0 THEN <<d + Base>> \o SubB(Hi(x), Hi(y), 1)
             ELSE <<d>> \o SubB(Hi(x), Hi(y), 0)

Sub(x, y) == Trim(SubB(x, y, 0))

\* x * k for a machine-sized k (k * Base stays below 2^31).
RECURSIVE MulSmallC(_, _, _)
MulSmallC(x, k, c) ==
    IF x = <<>> THEN NatOf(c)
    ELSE LET p == Head(x) * k + c
         IN  <<p % Base>> \o MulSmallC(Tail(x), k, p \div Base)

MulSmall(x, k) == IF k = 0 THEN <<>> ELSE MulSmallC(x, k, 0)

RECURSIVE Mul(_, _)
Mul(x, y) ==
    IF x = <<>> \/ y = <<>> THEN <<>>
    ELSE Add(MulSmall(x, Head(y)),
             LET r == Mul(x, Tail(y)) IN IF r = <<>> THEN <<>> ELSE <<0>> \o r)

\* -1, 0, 1 as x < y, x = y, x > y.
RECURSIVE CmpTop(_, _, _)
CmpTop(x, y, i) ==
    IF i = 0 THEN 0
    ELSE IF x[i] < y[i] THEN -1
    ELSE IF x[i] > y[i] THEN 1
    ELSE CmpTop(x, y, i - 1)

Cmp(x, y) ==
    IF Len(x) < Len(y) THEN -1
    ELSE IF Len(x) > Len(y) THEN 1
    ELSE CmpTop(x, y, Len(x))

RECURSIVE DivModSmall(_, _)
DivModSmall(x, d) ==
    IF x = <<>> THEN [q |-> <<>>, r |-> 0]
    ELSE LET hi  == DivModSmall(Tail(x), d)
             cur == hi.r * Base + Head(x)
         IN  [q |-> Trim(<<cur \div d>> \o hi.q), r |-> cur % d]

RECURSIVE Pow2(_)
Pow2(k) == IF k = 0 THEN 1 ELSE 2 * Pow2(k - 1)

\* x * 2^k.
RECURSIVE Shl(_, _)
Shl(x, k) ==
    IF k = 0 THEN x
    ELSE IF k >= 13 THEN Shl(MulSmall(x, 8192), k - 13)
    ELSE MulSmall(x, Pow2(k))

\* floor(x / 2^k).
RECURSIVE Shr(_, _)
Shr(x, k) ==
    IF k = 0 THEN x
    ELSE IF k >= 13 THEN Shr(DivModSmall(x, 8192).q, k - 13)
    ELSE DivModSmall(x, Pow2(k)).q

RECURSIVE BitLenSmall(_)
BitLenSmall(n) == IF n = 0 THEN 0 ELSE 1 + BitLenSmall(n \div 2)

RECURSIVE BitLen(_)
BitLen(x) ==
    IF x = <<>> THEN 0
    ELSE IF Len(x) > 1 THEN 13 + BitLen(DivModSmall(x, 8192).q)
    ELSE BitLenSmall(x[1])

IsOdd(x) == x # <<>> /\ x[1] % 2 = 1

\* The largest g in lo..hi with g * d <= cur (long division's digit).
RECURSIVE Digit(_, _, _, _)
Digit(cur, d, lo, hi) ==
    IF lo = hi THEN lo
    ELSE LET mid == (lo + hi + 1) \div 2
         IN  IF Cmp(MulSmall(d, mid), cur) <= 0
             THEN Digit(cur, d, mid, hi)
             ELSE Digit(cur, d, lo, mid - 1)

\* Floor division of naturals, d > 0: [q, r] with x = q * d + r, r < d.
\* One step of long division: digit g of the quotient, above the digits hq.
DivOut(cur, hq, d, g) == [q |-> Trim(<<g>> \o hq), r |-> Sub(cur, MulSmall(d, g))]

DivDigit(cur, hq, d) == DivOut(cur, hq, d, Digit(cur, d, 0, Base - 1))

DivStep(h, x0, d) == DivDigit(Trim(<<x0>> \o h.r), h.q, d)

RECURSIVE DivMod(_, _)
DivMod(x, d) ==
    IF x = <<>> THEN [q |-> <<>>, r |-> <<>>]
    ELSE DivStep(DivMod(Tail(x), d), Head(x), d)

(***************************************************************************)
(* Python numbers: [py, m, e].  An int is m (e = 0); a finite float is     *)
(* m * 2^e with m odd (or m = 0, e = 0), so equal floats are equal         *)
(* records; "inf" and "nan" are the two non-finite floats.  Amounts are    *)
(* non-negative.                                                           *)
(***************************************************************************)
PyInt(n) == [py |-> "int", m |-> n, e |-> 0]
PyInf == [py |-> "inf", m |-> <<>>, e |-> 0]
PyNan == [py |-> "nan", m |-> <<>>, e |-> 0]

RECURSIVE Canon(_, _)
Canon(m, e) ==
    IF m = <<>> THEN [py |-> "float", m |-> <<>>, e |-> 0]
    ELSE IF IsOdd(m) THEN [py |-> "float", m |-> m, e |-> e]
    ELSE IF DivModSmall(m, 8192).r = 0 THEN Canon(DivModSmall(m, 8192).q, e + 13)
    ELSE Canon(DivModSmall(m, 2).q, e + 1)

ShlBy(x, k) == IF k > 0 THEN Shl(x, k) ELSE x

\* Half up, a tie to the even quotient: c compares 2 * remainder with the
\* divisor.
RoundsUp(c, q) == c > 0 \/ (c = 0 /\ IsOdd(q))

RoundQuotient(qr, dd, e) ==
    Canon(IF RoundsUp(Cmp(MulSmall(qr.r, 2), dd), qr.q) THEN Add(qr.q, <<1>>) ELSE qr.q, e)

\* The quotient of n * 2^s by d scaled to 53 or 54 bits, and the shift
\* that leaves exactly 53.
FitShift(n, d, s0) ==
    IF BitLen(DivMod(ShlBy(n, s0), ShlBy(d, -s0)).q) > 53 THEN s0 - 1 ELSE s0

RoundAt(n, d, e0, s) ==
    RoundQuotient(DivMod(ShlBy(n, s), ShlBy(d, -s)), ShlBy(d, -s), e0 - s)

\* The binary64 nearest to (n / d) * 2^e0, ties to even (d > 0).
RoundToFloat(n, d, e0) ==
    IF n = <<>> THEN Canon(<<>>, 0)
    ELSE RoundAt(n, d, e0, FitShift(n, d, 53 - (BitLen(n) - BitLen(d))))

\* amount * k, k a Python int: int * int is exact, float * int converts k
\* to float (exact for the three unit constants) and rounds the product.
PyMulOf(a, p) ==
    CASE a.py = "int"   -> PyInt(p)
      [] a.py = "float" -> RoundToFloat(p, <<1>>, a.e)
      [] OTHER          -> a

PyMul(a, k) == PyMulOf(a, Mul(a.m, k))

\* x / d, d a Python int: always true division, so always a float.
PyTrueDiv(x, d) ==
    IF x.py \in {"int", "float"} THEN RoundToFloat(x.m, d, x.e) ELSE x

\* The natural a finite float truncates to.
Trunc(x) == IF x.e >= 0 THEN Shl(x.m, x.e) ELSE Shr(x.m, -x.e)

Return(v) == [kind |-> "return", value |-> v]
Raise(exc, msg) == [kind |-> "raise", exc |-> exc, msg |-> msg]

\* int(x) of a float.
PyIntOf(x) ==
    CASE x.py = "nan" -> Raise("ValueError", "cannot convert float NaN to integer")
      [] x.py = "inf" -> Raise("OverflowError", "cannot convert float infinity to integer")
      [] OTHER        -> Return(PyInt(Trunc(x)))

\* float(x) of a float.
PyFloatOf(x) == Return(x)

(***************************************************************************)
(* swap/providers/vapor/utils.py                                           *)
(***************************************************************************)
\* A symbol list that lost its last entry.
ConverterSymbolsFive == {"BTM2mBTM", "BTM2NEU", "mBTM2BTM", "mBTM2NEU", "NEU2BTM"}

\* The list of the symbol check (utils.py 36).
ConverterSymbols == {"BTM2mBTM", "BTM2NEU", "mBTM2BTM", "mBTM2NEU", "NEU2BTM", "NEU2mBTM"}

BTM == <<1>>
mBTM == <<1000>>
NEU == <<0, 0, 1>>

amount_converter(amount, symbol) ==
    IF symbol \notin ConverterSymbols
    THEN Raise("SymbolError", "Invalid symbol/type")
    ELSE CASE symbol = "BTM2mBTM" -> PyFloatOf(PyTrueDiv(PyMul(amount, mBTM), BTM))
           [] symbol = "BTM2NEU"  -> PyIntOf(PyTrueDiv(PyMul(amount, NEU), BTM))
           [] symbol = "mBTM2BTM" -> PyFloatOf(PyTrueDiv(PyMul(amount, BTM), mBTM))
           [] symbol = "mBTM2NEU" -> PyIntOf(PyTrueDiv(PyMul(amount, NEU), mBTM))
           [] symbol = "NEU2BTM"  -> PyFloatOf(PyTrueDiv(PyMul(amount, BTM), NEU))
           [] symbol = "NEU2mBTM" -> PyIntOf(PyTrueDiv(PyMul(amount, mBTM), NEU))

\* is_network (utils.py 57-72).  A Python argument is [py, s]: its type
\* name and, for a str, its text.
PyStr(s) == [py |-> "str", s |-> s]
PyNone == [py |-> "NoneType", s |-> ""]
PyOther(ty) == [py |-> ty, s |-> ""]

Networks == {"mainnet", "solonet", "testnet"}

\* A network check that forgets the case of its argument.
is_network_any_case(network) ==
    IF network.py # "str"
    THEN Raise("TypeError", "Network must be str")
    ELSE Return(network.s \in Networks \cup {"Mainnet"})

is_network(network) ==
    IF network.py # "str"
    THEN Raise("TypeError", "Network must be str")
    ELSE Return(network.s \in Networks)

\* is_address (utils.py 75-95).  btm_is_address is pybytom's checker: its
\* verdict is the input `verdict`; the call it receives is recorded.
BtmIsAddressCall(address, network) ==
    [address |-> address, network |-> network, vapor |-> TRUE]

is_address(address, network, verdict) ==
    IF network.py = "NoneType"
    THEN [out |-> Return(verdict), ext |-> <<BtmIsAddressCall(address, "absent")>>]
    ELSE LET n == is_network(network)
         IN  IF n.kind = "raise" THEN [out |-> n, ext |-> <<>>]
             ELSE IF ~n.value
             THEN [out |-> Raise("NetworkError", "Invalid Vapor network"), ext |-> <<>>]
             ELSE [out |-> Return(verdict),
                   ext |-> <<BtmIsAddressCall(address, network.s)>>]

(***************************************************************************)
(* Transaction raws.  A JSON value is [t, s, n, items, f]: its kind t      *)
(* ("str", "num", "arr", "obj") and the text, number, elements or fields   *)
(* of that kind; a byte string is [enc, doc]: whether it is                *)
(* UTF-8 and the JSON document its text parses to ([t |-> "invalid"] when  *)
(* it is no JSON); a str holding base64 is [py, form, payload]: "padded"   *)
(* decodes, "unpadded" lacks only its trailing "=", "broken" has a length  *)
(* no padding repairs.                                                     *)
(***************************************************************************)
NoFields == [none |-> 0]
JStr(s) == [t |-> "str", s |-> s, n |-> 0, items |-> <<>>, f |-> NoFields]
JNum(n) == [t |-> "num", s |-> "", n |-> n, items |-> <<>>, f |-> NoFields]
JArr(a) == [t |-> "arr", s |-> "", n |-> 0, items |-> a, f |-> NoFields]
JObj(f) == [t |-> "obj", s |-> "", n |-> 0, items |-> <<>>, f |-> f]
JInvalid == [t |-> "invalid", s |-> "", n |-> 0, items |-> <<>>, f |-> NoFields]

Ok(v) == [ok |-> TRUE, v |-> v]
Err(exc, msg) == [ok |-> FALSE, v |-> Raise(exc, msg)]

\* clean_transaction_raw (swap/utils.py): restores the "=" padding.
clean_transaction_raw(raw) ==
    IF raw.form = "unpadded" THEN [raw EXCEPT !.form = "padded"] ELSE raw

\* base64.b64decode(raw.encode())
b64decode(raw) ==
    IF raw.form = "padded" THEN Ok(raw.payload)
    ELSE Err("binascii.Error", "Incorrect padding")

\* json.loads(bytes.decode())
json_loads(bytes) ==
    IF bytes.enc # "utf8" THEN Err("UnicodeDecodeError", "invalid start byte")
    ELSE IF bytes.doc.t = "invalid" THEN Err("JSONDecodeError", "Expecting value")
    ELSE Ok(bytes.doc)

\* doc[key] of a loaded JSON document.
GetItem(doc, key) ==
    IF doc.t = "obj"
    THEN IF key \in DOMAIN doc.f THEN Ok(doc.f[key]) ELSE Err("KeyError", key)
    ELSE Err("TypeError", "indices must be integers")

\* The three statements both decode and submit share (and the try body of
\* is_transaction_raw): clean, b64decode, json.loads.
LoadRaw(raw) ==
    LET d == b64decode(clean_transaction_raw(raw))
    IN  IF ~d.ok THEN d ELSE json_loads(d.v)

TransactionRawTypes ==
    {"vapor_fund_unsigned", "vapor_fund_signed",
     "vapor_claim_unsigned", "vapor_claim_signed",
     "vapor_refund_unsigned", "vapor_refund_signed"}

\* The check with `except ValueError:` in place of the bare except: a
\* missing or unsubscriptable "type" escapes.
is_transaction_raw_except_ValueError(raw) ==
    IF raw.py # "str"
    THEN Raise("TypeError", "Transaction raw must be str")
    ELSE LET l  == LoadRaw(raw)
             ty == IF l.ok THEN GetItem(l.v, "type") ELSE l
         IN  IF ~l.ok THEN Return(FALSE)
             ELSE IF ~ty.ok THEN ty.v
             ELSE Return(ty.v.t = "str" /\ ty.v.s \in TransactionRawTypes)

\* is_transaction_raw (utils.py 98-124): the bare except turns every
\* exception of the try body into False.
is_transaction_raw(raw) ==
    IF raw.py # "str"
    THEN Raise("TypeError", "Transaction raw must be str")
    ELSE LET l  == LoadRaw(raw)
             ty == IF l.ok THEN GetItem(l.v, "type") ELSE l
         IN  IF ~ty.ok THEN Return(FALSE)
             ELSE Return(ty.v.t = "str" /\ ty.v.s \in TransactionRawTypes)

\* config[network][service] of the vapor config (swap/providers/config.py):
\* the three networks hold the service URLs; any other key raises.
ConfigUrl(network, service) ==
    IF network.t \in {"arr", "obj"} THEN Err("TypeError", "unhashable type")
    ELSE IF network.t = "str" /\ network.s \in Networks
    THEN Ok([network |-> network.s, service |-> service])
    ELSE Err("KeyError", "network")

\* The first failed lookup of a sequence of lookups, in evaluation order.
RECURSIVE FirstFailure(_)
FirstFailure(items) ==
    IF items = <<>> THEN Ok(<<>>)
    ELSE IF ~Head(items).ok THEN Head(items)
    ELSE FirstFailure(Tail(items))

\* requests.post(...) then response.json(): `net` is what the remote side
\* does, [kind |-> "raise", ...] (no connection, timeout) or
\* [kind |-> "response", status_code, body].
ResponseJson(net) ==
    IF net.kind = "raise" THEN Err(net.exc, "request failed")
    ELSE IF net.body.t = "invalid" THEN Err("JSONDecodeError", "Expecting value")
    ELSE Ok(net.body)

\* raise APIError(response_json["msg"], response_json["code"])
RaiseAPIError(response_json) ==
    LET msg  == GetItem(response_json, "msg")
        code == GetItem(response_json, "code")
    IN  IF ~msg.ok THEN msg.v
        ELSE IF ~code.ok THEN code.v
        ELSE Raise("APIError", <<msg.v, code.v>>)

InvalidRaw == Raise("TransactionRawError", "Invalid Vapor transaction raw.")

\* decode_transaction_raw keeps the remote answer under this key (utils.py 165).
DecodedKey == "tx"

\* The dict decode_transaction_raw returns (utils.py 161-169).
DecodedDict(loaded, response_json) ==
    LET items == <<GetItem(loaded, "fee"), GetItem(loaded, "address"),
                   GetItem(loaded, "type"), GetItem(response_json, "data"),
                   GetItem(loaded, "unsigned_datas"), GetItem(loaded, "signatures"),
                   GetItem(loaded, "network")>>
        bad   == FirstFailure(items)
        keys  == {"fee", "address", "type", DecodedKey, "unsigned_datas",
                  "signatures", "network"}
    IN  IF ~bad.ok THEN bad.v
        ELSE Return([k \in keys |->
                 CASE k = "fee" -> items[1].v
                   [] k = "address" -> items[2].v
                   [] k = "type" -> items[3].v
                   [] k = DecodedKey -> items[4].v
                   [] k = "unsigned_datas" -> items[5].v
                   [] k = "signatures" -> items[6].v
                   [] k = "network" -> items[7].v])

\* decode and submit without their opening guard.
RejectNothing(raw) == [stop |-> FALSE, out |-> Return(TRUE)]

\* if not is_transaction_raw(...): raise TransactionRawError(...), the
\* guard decode and submit both open with (utils.py 145-146, 190-191).
RejectInvalid(raw) ==
    LET valid == is_transaction_raw(raw)
    IN  IF valid.kind = "raise" THEN [stop |-> TRUE, out |-> valid]
        ELSE IF ~valid.value THEN [stop |-> TRUE, out |-> InvalidRaw]
        ELSE [stop |-> FALSE, out |-> valid]

\* decode_transaction_raw (utils.py 127-169): [out, sent], the outcome and
\* the HTTP requests the call issued.
decode_transaction_raw(raw, net) ==
    LET guard   == RejectInvalid(raw)
        l       == LoadRaw(raw)
        loaded  == IF l.ok THEN l.v ELSE JInvalid
        network == GetItem(loaded, "network")
        url     == IF network.ok THEN ConfigUrl(network.v, "vapor-core") ELSE network
        rawtx   == GetItem(loaded, "raw")
        bad     == FirstFailure(<<l, url, rawtx>>)
        request == [url |-> url.v, path |-> "/decode-raw-transaction",
                    data |-> [raw_transaction |-> rawtx.v],
                    params |-> <<>>]
        rj      == ResponseJson(net)
    IN  IF guard.stop THEN [out |-> guard.out, sent |-> <<>>]
        ELSE IF ~bad.ok THEN [out |-> bad.v, sent |-> <<>>]
        ELSE [sent |-> <<request>>,
              out  |-> IF ~rj.ok THEN rj.v
                       ELSE IF net.status_code = 400 THEN RaiseAPIError(rj.v)
                       ELSE DecodedDict(loaded, rj.v)]

\* The dict submit_transaction_raw returns (utils.py 207-213).
SubmittedDict(loaded, response_json, now) ==
    LET data  == GetItem(response_json, "data")
        items == <<GetItem(loaded, "fee"), GetItem(loaded, "type"),
                   IF data.ok THEN GetItem(data.v, "tx_hash") ELSE data,
                   GetItem(loaded, "network")>>
        bad   == FirstFailure(items)
    IN  IF ~bad.ok THEN bad.v
        ELSE Return([fee |-> items[1].v, type |-> items[2].v,
                     transaction_id |-> items[3].v, network |-> items[4].v,
                     date |-> now])

\* submit_transaction_raw (utils.py 172-213): [out, sent].
submit_transaction_raw(raw, net, now) ==
    LET guard   == RejectInvalid(raw)
        l       == LoadRaw(raw)
        loaded  == IF l.ok THEN l.v ELSE JInvalid
        network == GetItem(loaded, "network")
        url     == IF network.ok THEN ConfigUrl(network.v, "blockcenter") ELSE network
        rawtx   == GetItem(loaded, "raw")
        sigs    == GetItem(loaded, "signatures")
        address == GetItem(loaded, "address")
        bad     == FirstFailure(<<l, url, rawtx, sigs, address>>)
        request == [url |-> url.v, path |-> "/merchant/submit-payment",
                    data |-> [raw_transaction |-> rawtx.v, signatures |-> sigs.v],
                    params |-> <<address.v>>]
        rj      == ResponseJson(net)
        code    == IF rj.ok THEN GetItem(rj.v, "code") ELSE rj
    IN  IF guard.stop THEN [out |-> guard.out, sent |-> <<>>]
        ELSE IF ~bad.ok THEN [out |-> bad.v, sent |-> <<>>]
        ELSE [sent |-> <<request>>,
              out  |-> IF ~rj.ok THEN rj.v
                       ELSE IF ~code.ok THEN code.v
                       ELSE IF ~(code.v.t = "num" /\ code.v.n = 200)
                       THEN RaiseAPIError(rj.v)
                       ELSE SubmittedDict(loaded, rj.v, now)]

(***************************************************************************)
(* Inputs.                                                                 *)
(***************************************************************************)
MaxSmallAmount == 3

\* Whole amounts: the small ones, the docstring's 10_000_000, and amounts
\* whose scaled value needs more than a float's 53 bits.
IntAmounts ==
    {PyInt(NatOf(n)) : n \in 0..MaxSmallAmount} \cup
    {PyInt(<<0, 1000>>), PyInt(<<7441, 8446, 1>>), PyInt(<<93, 5843, 230>>),
     PyInt(<<1519, 376, 8823, 2>>), PyInt(<<7929, 9403, 575, 72>>),
     PyInt(<<9999, 4729, 9534, 7438, 1>>)}

\* 0.0, 3.0, 1.5, 2.5 and 0.1 (3602879701896397 * 2^-55), inf and nan.
FloatAmounts ==
    {[py |-> "float", m |-> <<>>, e |-> 0], [py |-> "float", m |-> <<3>>, e |-> 0],
     [py |-> "float", m |-> <<3>>, e |-> -1], [py |-> "float", m |-> <<5>>, e |-> -1],
     [py |-> "float", m |-> <<6397, 7018, 8797, 3602>>, e |-> -55],
     PyInf, PyNan}

Amounts == IntAmounts \cup FloatAmounts

\* Symbol arguments: the six conversions, identities, a foreign unit, a
\* wrong case and the empty string.
Symbols ==
    {"BTM2mBTM", "BTM2NEU", "mBTM2BTM", "mBTM2NEU", "NEU2BTM", "NEU2mBTM",
     "NEU2NEU", "BTM2BTM", "SAT2NEU", "neu2btm", "BTM2SAT", ""}

NetworkArgs ==
    {PyStr(s) : s \in Networks \cup {"Mainnet", "foonet", ""}} \cup
    {PyNone, PyOther("int"), PyOther("bytes")}

AddressArgs == {"vp1q9ndylx02syfwd7npehfxz4lddhzqsve2za23ag", "L5tUq6mCbE84XobZ1mphBPZf15cRFcvg7Q"}

\* The envelope Transaction.transaction_raw() encodes.
Envelope(type, network, signatures) ==
    JObj([fee |-> JNum(449000), address |-> JStr("vp1q9ndylx02syfwd7npehfxz4lddhzqsve2za23ag"),
          raw |-> JStr("0701a8d302"), hash |-> JStr("e1f6d3a2"),
          unsigned_datas |-> JArr(<<JStr("d1")>>), signatures |-> JArr(signatures),
          network |-> JStr(network), type |-> JStr(type)])

Utf8(doc) == [enc |-> "utf8", doc |-> doc]
B64(py, form, payload) == [py |-> py, form |-> form, payload |-> payload]

Sigs1 == <<JArr(<<JStr("s1")>>)>>

SignedTypes == {"vapor_fund_signed", "vapor_claim_signed", "vapor_refund_signed"}

EnvelopeDocs ==
    {Envelope(ty, "mainnet", IF ty \in SignedTypes THEN Sigs1 ELSE <<>>) :
        ty \in TransactionRawTypes \cup {"bytom_fund_signed", "bitcoin_fund_unsigned"}} \cup
    {Envelope("vapor_refund_signed", n, Sigs1) : n \in {"testnet", "foonet"}}

\* JSON documents that are no complete envelope.
OtherDocs ==
    {JObj([fee |-> JNum(449000), network |-> JStr("mainnet")]),
     JObj([type |-> JNum(1), network |-> JStr("mainnet")]),
     JObj([type |-> JStr("vapor_claim_signed")]),
     JObj([type |-> JStr("vapor_fund_unsigned"), network |-> JStr("solonet"),
           raw |-> JStr("0701a8d302")]),
     JArr(<<JStr("type"), JStr("vapor_fund_signed")>>),
     JStr("vapor_fund_signed"),
     JInvalid}

RawArgs ==
    {B64("str", "padded", Utf8(d)) : d \in EnvelopeDocs \cup OtherDocs} \cup
    {B64("str", "unpadded", Utf8(Envelope("vapor_claim_signed", "mainnet", Sigs1))),
     B64("str", "broken", Utf8(Envelope("vapor_claim_signed", "mainnet", Sigs1))),
     B64("str", "padded", [enc |-> "binary", doc |-> JInvalid]),
     B64("bytes", "padded", Utf8(Envelope("vapor_claim_signed", "mainnet", Sigs1))),
     B64("NoneType", "broken", [enc |-> "binary", doc |-> JInvalid])}

Response(status, body) ==
    [kind |-> "response", exc |-> "", status_code |-> status, body |-> body]

\* What the remote service may do with a request.
Remote ==
    {Response(200, JObj([status |-> JStr("success"), code |-> JNum(200),
                         data |-> JObj([tx_hash |-> JStr("2993414225f6"),
                                        tx_id |-> JStr("2993414225f6")])])),
     Response(400, JObj([status |-> JStr("fail"), code |-> JStr("BTM706"),
                         msg |-> JStr("invalid raw transaction")])),
     Response(200, JObj([code |-> JNum(300), msg |-> JStr("finalize tx fail")])),
     Response(500, JObj([status |-> JStr("fail"), code |-> JNum(500),
                         msg |-> JStr("internal error")])),
     Response(502, JInvalid),
     Response(200, JObj([code |-> JNum(200)])),
     [kind |-> "raise", exc |-> "ConnectionError", status_code |-> 0, body |-> JInvalid]}

Clock == {"2021-01-01 00:00:00.000000"}

(***************************************************************************)
(* The transaction classes the example scripts drive                       *)
(* (swap/providers/{bytom,vapor}/transaction.py, solver.py, signature.py). *)
(***************************************************************************)
SignedOf(type) ==
    CASE type = "bytom_claim_unsigned"  -> "bytom_claim_signed"
      [] type = "vapor_refund_unsigned" -> "vapor_refund_signed"
      [] OTHER -> type

\* The external signer: one signature per unsigned datum, made with the
\* solver's key.
SignDatas(solver, datas) ==
    [i \in 1..Len(datas) |-> JArr(<<JStr(solver.xprivate_key), datas[i]>>)]

\* Transaction.sign(solver): signs the object in place.
TransactionSign(tx, solver) ==
    [tx EXCEPT !.signatures = SignDatas(solver, tx.unsigned_datas),
               !.type = SignedOf(tx.type)]

\* Transaction.transaction_raw(): base64 of the JSON envelope.
TransactionRaw(tx) ==
    B64("str", "padded",
        Utf8(JObj([fee |-> JNum(tx.fee), address |-> JStr(tx.address),
                   raw |-> JStr(tx.raw), hash |-> JStr(tx.hash),
                   unsigned_datas |-> JArr(tx.unsigned_datas),
                   signatures |-> JArr(tx.signatures),
                   network |-> JStr(tx.network), type |-> JStr(tx.type)])))

\* Signature.sign(transaction_raw, solver) then Signature.transaction_raw():
\* decodes the raw, signs its unsigned datas, encodes the envelope again.
SignatureSign(raw, solver) ==
    LET l == LoadRaw(raw)
    IN  IF ~l.ok \/ l.v.t # "obj" THEN Raise("ValueError", "invalid transaction raw")
        ELSE Return(B64("str", "padded",
                 Utf8(JObj([l.v.f EXCEPT
                     !["signatures"] = JArr(SignDatas(solver, l.v.f["unsigned_datas"].items)),
                     !["type"] = JStr(SignedOf(l.v.f["type"].s))]))))

(***************************************************************************)
(* cryptocurrencies/bytom/claim.py and cryptocurrencies/vapor/refund.py    *)
(***************************************************************************)
ScriptNames == {"claim", "refund"}

\* What the external builder found on the chain for the funded transaction.
BuildResults ==
    [fee : {449000, 10000000},
     unsigned_datas : {<<JStr("d1")>>, <<JStr("d1"), JStr("d2")>>}]

NoTx ==
    [type |-> "", network |-> "", fee |-> 0, address |-> "", raw |-> "", hash |-> "",
     unsigned_datas |-> <<>>, signatures |-> <<>>]

NoRaw == B64("NoneType", "broken", [enc |-> "binary", doc |-> JInvalid])

NoSolver == [xprivate_key |-> "", secret_key |-> "", bytecode |-> ""]

\* claim.py 48-55, refund.py 46-53
BuiltTransaction(name, b) ==
    [type |-> IF name = "claim" THEN "bytom_claim_unsigned" ELSE "vapor_refund_unsigned",
     network |-> "mainnet", fee |-> b.fee,
     address |-> IF name = "claim" THEN "bm1q3plwvmvy4qhjmp5zffzmk50aagpujt6f5je85p"
                 ELSE "vp1q9ndylx02syfwd7npehfxz4lddhzqsve2za23ag",
     raw |-> "0701a8d302", hash |-> "e1f6d3a2",
     unsigned_datas |-> b.unsigned_datas, signatures |-> <<>>]

\* claim.py 71-75, refund.py 69-72
ScriptSolver(name) ==
    IF name = "claim"
    THEN [xprivate_key |-> "recipient_xprivate_key", secret_key |-> "Hello Meheret!",
          bytecode |-> "02e8032091ff"]
    ELSE [xprivate_key |-> "sender_xprivate_key", secret_key |-> "",
          bytecode |-> "02e8032091ff"]

\* signature.sign(...) handed a solver of another key.
SignatureSignArgsOtherSolver(s) ==
    [transaction_raw |-> s.unsigned_raw,
     solver |-> [s.solver EXCEPT !.xprivate_key = "another_xprivate_key"]]

\* The arguments of signature.sign(...) (claim.py 95-98, refund.py 93-96).
SignatureSignArgs(s) == [transaction_raw |-> s.unsigned_raw, solver |-> s.solver]

\* The calls' results over the inputs, computed once.
ConverterResults == [amount \in Amounts, symbol \in Symbols |-> amount_converter(amount, symbol)]
DecodeResults == [raw \in RawArgs, net \in Remote |-> decode_transaction_raw(raw, net)]
SubmitResults ==
    [raw \in RawArgs, net \in Remote, now \in Clock |-> submit_transaction_raw(raw, net, now)]

(***************************************************************************)
(* swap/cli/providers/vapor/refund.py and the bitcoin htlc command         *)
(***************************************************************************)
\* The names swap/providers/vapor/utils.py defines or imports.
VaporUtilsNames ==
    {"b64decode", "btm_is_address", "Optional", "Union", "requests", "json", "datetime",
     "clean_transaction_raw", "NetworkError", "APIError", "TransactionRawError",
     "SymbolError", "AddressError", "vapor", "config",
     "amount_converter", "is_network", "is_address", "is_transaction_raw",
     "decode_transaction_raw", "submit_transaction_raw", "get_address_type"}

\* from ....providers.vapor.utils import amount_unit_converter (refund.py 8)
RefundUtilsImports == {"amount_unit_converter"}

\* The keyword parameters of amount_converter (utils.py 21).
ConverterParams == {"amount", "symbol"}

NoException == Raise("", "")

\* try: click.echo(result) / except Exception: click.echo("Error: ...",
\* err=True); sys.exit()  (refund.py 27-44).  `result` is the outcome of
\* the expression click.echo is given.
Handler(result) ==
    IF result.kind = "return"
    THEN [lines |-> <<[stream |-> "stdout", text |-> <<"", result.value>>]>>,
          exit_code |-> 0, escaped |-> NoException]
    ELSE [lines |-> <<[stream |-> "stderr", text |-> <<"Error: ", result.msg>>]>>,
          exit_code |-> 0, escaped |-> NoException]

\* int(amount) of the float click parsed.
IntOfAmount(amount) ==
    IF amount.py = "int" THEN Return(amount) ELSE PyIntOf(amount)

\* amount_unit_converter(amount=amount, unit_from=f"{unit}2NEU") once the
\* import has bound the name to the utils converter.
ConverterCall(amount, unit) ==
    IF ~({"amount", "unit_from"} \subseteq ConverterParams)
    THEN Raise("TypeError", "got an unexpected keyword argument 'unit_from'")
    ELSE ConverterResults[amount, unit \o "2NEU"]

\* --amount is a click float option (refund.py 16).
CliAmounts == FloatAmounts

IntResults == [amount \in CliAmounts |-> IntOfAmount(amount)]

\* The amount argument of build_transaction (refund.py 34-36).
RefundAmount(amount, unit) ==
    IF unit = "NEU" THEN IntResults[amount] ELSE ConverterCall(amount, unit)

\* The refund command: the module's imports, then the command body.
\* `build` is what RefundTransaction(...).build_transaction(...)
\* .transaction_raw() does with a NEU amount.  [lines, exit_code, escaped,
\* built]: what was printed, the exit code, the exception that left the
\* command, and the amounts build_transaction was handed.
refund(amount, unit, build) ==
    IF ~(RefundUtilsImports \subseteq VaporUtilsNames)
    THEN [lines |-> <<>>, exit_code |-> 1,
          escaped |-> Raise("ImportError", "cannot import name 'amount_unit_converter'"),
          built |-> <<>>]
    ELSE LET neu == RefundAmount(amount, unit)
             h   == Handler(IF neu.kind = "raise" THEN neu ELSE build)
         IN  [lines |-> h.lines, exit_code |-> h.exit_code, escaped |-> h.escaped,
              built |-> IF neu.kind = "raise" THEN <<>> ELSE <<neu.value>>]

\* The bitcoin htlc command (tests/cli/bitcoin/test_bitcoin_cli_htlc.py):
\* the same handler around the HTLC builder.
htlc(build) ==
    LET h == Handler(build)
    IN  [lines |-> h.lines, exit_code |-> h.exit_code, escaped |-> h.escaped,
         built |-> <<>>]

CliUnits == {"NEU", "BTM", "mBTM", "SAT"}

\* What the external builders do: a result, or an exception of the library.
RefundBuilds ==
    {Return("eyJmZWUiOiA0NDkwMDB9"),
     Raise("AddressError", "invalid mainnet vp1q9 address"),
     Raise("APIError", "not found this transaction")}

HtlcBuilds ==
    {Return("63aa204683a21fd5ce2425adc90a3674b6d8d3d4"),
     Raise("AddressError", "invalid testnet recipient L5tUq6mCbE84XobZ1mphBPZf15cRFcvg7Q address")}

VARIABLES call, sent, ext, script, cli

vars == <<call, sent, ext, script, cli>>

NoCall == [fn |-> "none", args |-> <<>>, out |-> Return(<<>>)]

NoScript ==
    [name |-> "", pc |-> "none", tx |-> NoTx, unsigned_raw |-> NoRaw, solver |-> NoSolver,
     signed_raw |-> NoRaw, signature |-> Return(NoRaw), signature_raw |-> NoRaw]

NoCli ==
    [cmd |-> "", pc |-> "none", amount |-> PyInt(<<>>), unit |-> "", build |-> NoException,
     lines |-> <<>>, exit_code |-> 0, escaped |-> NoException, built |-> <<>>]

Init ==
    /\ call = NoCall
    /\ sent = <<>>
    /\ ext = <<>>
    /\ script = NoScript
    /\ cli = NoCli

\* A behaviour is one Python process: a caller of the utils module, a run
\* of an example script, or one CLI invocation.
Library == script.pc = "none" /\ cli.pc = "none"
Fresh == call.fn = "none" /\ script.pc = "none" /\ cli.pc = "none"

\* One library call by a caller of the utils module; `sent` and `ext` are
\* the HTTP requests and the address-checker calls that call issued.
CallAmountConverter ==
    \E amount \in Amounts, symbol \in Symbols :
        /\ Library
        /\ call' = [fn |-> "amount_converter", args |-> <<amount, symbol>>,
                    out |-> ConverterResults[amount, symbol]]
        /\ sent' = <<>>
        /\ ext' = <<>>
        /\ UNCHANGED <<script, cli>>

CallIsNetwork ==
    \E network \in NetworkArgs :
        /\ Library
        /\ call' = [fn |-> "is_network", args |-> <<network>>, out |-> is_network(network)]
        /\ sent' = <<>>
        /\ ext' = <<>>
        /\ UNCHANGED <<script, cli>>

CallIsAddress ==
    \E address \in AddressArgs, network \in NetworkArgs, verdict \in BOOLEAN :
        LET r == is_address(address, network, verdict)
        IN  /\ Library
            /\ call' = [fn |-> "is_address", args |-> <<address, network, verdict>>,
                        out |-> r.out]
            /\ sent' = <<>>
            /\ ext' = r.ext
            /\ UNCHANGED <<script, cli>>

CallIsTransactionRaw ==
    \E raw \in RawArgs :
        /\ Library
        /\ call' = [fn |-> "is_transaction_raw", args |-> <<raw>>,
                    out |-> is_transaction_raw(raw)]
        /\ sent' = <<>>
        /\ ext' = <<>>
        /\ UNCHANGED <<script, cli>>

CallDecodeTransactionRaw ==
    \E raw \in RawArgs, net \in Remote :
        LET r == DecodeResults[raw, net]
        IN  /\ Library
            /\ call' = [fn |-> "decode_transaction_raw", args |-> <<raw, net>>,
                        out |-> r.out]
            /\ sent' = r.sent
            /\ ext' = <<>>
            /\ UNCHANGED <<script, cli>>

CallSubmitTransactionRaw ==
    \E raw \in RawArgs, net \in Remote, now \in Clock :
        LET r == SubmitResults[raw, net, now]
        IN  /\ Library
            /\ call' = [fn |-> "submit_transaction_raw", args |-> <<raw, net>>,
                        out |-> r.out]
            /\ sent' = r.sent
            /\ ext' = <<>>
            /\ UNCHANGED <<script, cli>>

\* The example scripts, statement by statement.
ScriptStart ==
    \E name \in ScriptNames :
        /\ Fresh
        /\ script' = [NoScript EXCEPT !.name = name, !.pc = "build_transaction"]
        /\ UNCHANGED <<call, sent, ext, cli>>

ScriptBuildTransaction ==
    /\ script.pc = "build_transaction"
    /\ \/ \E b \in BuildResults :
            script' = [script EXCEPT !.tx = BuiltTransaction(script.name, b),
                                     !.pc = "unsigned_transaction_raw"]
       \/ script' = [script EXCEPT !.pc = "APIError"]
    /\ UNCHANGED <<call, sent, ext, cli>>

ScriptUnsignedTransactionRaw ==
    /\ script.pc = "unsigned_transaction_raw"
    /\ script' = [script EXCEPT !.unsigned_raw = TransactionRaw(script.tx), !.pc = "sign"]
    /\ UNCHANGED <<call, sent, ext, cli>>

ScriptSign ==
    /\ script.pc = "sign"
    /\ script' = [script EXCEPT !.solver = ScriptSolver(script.name),
                                !.tx = TransactionSign(script.tx, ScriptSolver(script.name)),
                                !.pc = "signed_transaction_raw"]
    /\ UNCHANGED <<call, sent, ext, cli>>

ScriptSignedTransactionRaw ==
    /\ script.pc = "signed_transaction_raw"
    /\ script' = [script EXCEPT !.signed_raw = TransactionRaw(script.tx),
                                !.pc = "signature_sign"]
    /\ UNCHANGED <<call, sent, ext, cli>>

ScriptSignatureSign ==
    /\ script.pc = "signature_sign"
    /\ LET a == SignatureSignArgs(script)
           r == SignatureSign(a.transaction_raw, a.solver)
       IN  script' = [script EXCEPT !.signature = r,
                          !.pc = IF r.kind = "raise" THEN r.exc ELSE "signature_transaction_raw"]
    /\ UNCHANGED <<call, sent, ext, cli>>

ScriptSignatureTransactionRaw ==
    /\ script.pc = "signature_transaction_raw"
    /\ script' = [script EXCEPT !.signature_raw = script.signature.value, !.pc = "assert"]
    /\ UNCHANGED <<call, sent, ext, cli>>

ScriptAssert ==
    /\ script.pc = "assert"
    /\ script' = [script EXCEPT !.pc = IF script.signed_raw = script.signature_raw
                                       THEN "done" ELSE "AssertionError"]
    /\ UNCHANGED <<call, sent, ext, cli>>

\* One CLI invocation.
CliRefund ==
    \E amount \in CliAmounts, unit \in CliUnits, build \in RefundBuilds :
        LET r == refund(amount, unit, build)
        IN  /\ Fresh
            /\ cli' = [cmd |-> "vapor refund", pc |-> "exited", amount |-> amount,
                       unit |-> unit, build |-> build, lines |-> r.lines,
                       exit_code |-> r.exit_code, escaped |-> r.escaped, built |-> r.built]
            /\ UNCHANGED <<call, sent, ext, script>>

CliHtlc ==
    \E build \in HtlcBuilds :
        LET r == htlc(build)
        IN  /\ Fresh
            /\ cli' = [cmd |-> "bitcoin htlc", pc |-> "exited", amount |-> PyInt(<<>>),
                       unit |-> "", build |-> build, lines |-> r.lines,
                       exit_code |-> r.exit_code, escaped |-> r.escaped, built |-> r.built]
            /\ UNCHANGED <<call, sent, ext, script>>

Next ==
    \/ CallAmountConverter
    \/ CallIsNetwork
    \/ CallIsAddress
    \/ CallIsTransactionRaw
    \/ CallDecodeTransactionRaw
    \/ CallSubmitTransactionRaw
    \/ ScriptStart
    \/ ScriptBuildTransaction
    \/ ScriptUnsignedTransactionRaw
    \/ ScriptSign
    \/ ScriptSignedTransactionRaw
    \/ ScriptSignatureSign
    \/ ScriptSignatureTransactionRaw
    \/ ScriptAssert
    \/ CliRefund
    \/ CliHtlc

Spec == Init /\ [][Next]_vars

C2_NoExceptionEscapes ==
    cli.pc = "exited" =>
        /\ cli.escaped = NoException
        /\ cli.exit_code = 0
        /\ Len(cli.lines) = 1
        /\ cli.build.kind = "raise" =>
              cli.lines[1] = [stream |-> "stderr", text |-> <<"Error: ", cli.build.msg>>]
        /\ cli.lines[1].stream = "stdout" =>
              cli.build.kind = "return" /\ cli.lines[1].text = <<"", cli.build.value>>

\* C3: every request posted to the submit service carries the signatures
\* of a signed transaction: no unsigned transaction raw is ever posted.
C3_OnlySignedRawsPosted ==
    \A i \in DOMAIN sent :
        sent[i].path = "/merchant/submit-payment" =>
            sent[i].data.signatures.items # <<>>

\* The envelope a str raw carries once cleaned and decoded, told from the
\* raw itself.
Accepted(raw) ==
    LET bytes == b64decode(clean_transaction_raw(raw))
    IN  /\ bytes.ok
        /\ bytes.v.enc = "utf8"
        /\ bytes.v.doc.t = "obj"
        /\ "type" \in DOMAIN bytes.v.doc.f
        /\ bytes.v.doc.f["type"].t = "str"
        /\ bytes.v.doc.f["type"].s \in
              {"vapor_fund_unsigned", "vapor_fund_signed", "vapor_claim_unsigned",
               "vapor_claim_signed", "vapor_refund_unsigned", "vapor_refund_signed"}

\* C4: is_transaction_raw returns a boolean for every str and raises
\* nothing: True exactly when the cleaned input base64-decodes to JSON
\* whose "type" is one of the six vapor tags; a non-str raises TypeError.
C4_IsTransactionRawTotal ==
    call.fn = "is_transaction_raw" =>
        IF call.args[1].py = "str"
        THEN /\ call.out.kind = "return"
             /\ call.out.value \in BOOLEAN
             /\ call.out.value <=> Accepted(call.args[1])
        ELSE call.out.kind = "raise" /\ call.out.exc = "TypeError"

\* An unpadded raw found valid, so cleaning came before decoding.
C4_Witness ==
    /\ call.fn = "is_transaction_raw"
    /\ call.args[1].form = "unpadded"
    /\ call.out = Return(TRUE)

\* C5: decode and submit of a raw is_transaction_raw rejects raise
\* TransactionRawError("Invalid Vapor transaction raw.") and send no HTTP
\* request.
C5_ValidationPrecedesNetwork ==
    /\ call.fn \in {"decode_transaction_raw", "submit_transaction_raw"}
    /\ is_transaction_raw(call.args[1]) = Return(FALSE)
    => /\ sent = <<>>
       /\ call.out.kind = "raise"
       /\ call.out.exc = "TransactionRawError"
       /\ call.out.msg = "Invalid Vapor transaction raw."

\* A complete envelope of another chain, which the remote side would have
\* answered, refused by submit before any request.
C5_Witness ==
    /\ call.fn = "submit_transaction_raw"
    /\ call.args[1].py = "str"
    /\ call.args[1].form = "padded"
    /\ call.args[1].payload.doc.t = "obj"
    /\ "type" \in DOMAIN call.args[1].payload.doc.f
    /\ call.args[1].payload.doc.f["type"].s = "bytom_fund_signed"
    /\ call.args[2].kind = "response"
    /\ call.out = InvalidRaw
    /\ sent = <<>>

\* C6: the dict decode_transaction_raw returns has exactly the keys its
\* documentation shows, the remote answer under "transaction", and the
\* envelope's own values under the other six.
C6_DecodedKeysAsDocumented ==
    call.fn = "decode_transaction_raw" /\ call.out.kind = "return" =>
        /\ DOMAIN call.out.value =
              {"fee", "type", "address", "transaction", "unsigned_datas", "signatures",
               "network"}
        /\ \A k \in {"fee", "type", "address", "unsigned_datas", "signatures", "network"} :
              call.out.value[k] = call.args[1].payload.doc.f[k]

\* The float x is the natural n.
FloatIsNat(x, n) == x.py = "float" /\ x.e >= 0 /\ Shl(x.m, x.e) = n

\* BTM to mBTM, and that result to NEU.
ThenToNEU ==
    [a \in IntAmounts |->
        LET mbtm == ConverterResults[a, "BTM2mBTM"]
        IN  IF mbtm.kind = "raise" THEN mbtm
            ELSE amount_converter(mbtm.value, "mBTM2NEU")]

\* C7: on every whole amount a, BTM2NEU returns a * 100_000_000, mBTM2NEU
\* returns a * 100_000, BTM2mBTM returns a * 1000, and BTM to mBTM to NEU
\* gives what BTM2NEU gives.
C7_IntegerConversionsExact ==
    call.fn = "amount_converter" /\ call.args[1].py = "int" =>
        /\ call.args[2] = "BTM2NEU" =>
              /\ call.out = Return(PyInt(Mul(call.args[1].m, <<0, 0, 1>>)))
              /\ ThenToNEU[call.args[1]] = call.out
        /\ call.args[2] = "mBTM2NEU" =>
              call.out = Return(PyInt(Mul(call.args[1].m, <<0, 10>>)))
        /\ call.args[2] = "BTM2mBTM" =>
              /\ call.out.kind = "return"
              /\ FloatIsNat(call.out.value, Mul(call.args[1].m, <<1000>>))

\* C8 as stated: a symbol outside the six raises SymbolError whatever the
\* amount, and each of the six returns a value and raises nothing.
C8_SixSymbolsAlwaysReturn ==
    call.fn = "amount_converter" =>
        IF call.args[2] \in {"BTM2mBTM", "BTM2NEU", "mBTM2BTM", "mBTM2NEU", "NEU2BTM",
                             "NEU2mBTM"}
        THEN call.out.kind = "return"
        ELSE call.out.kind = "raise" /\ call.out.exc = "SymbolError"

\* C8, amended: a symbol outside the six raises SymbolError whatever the
\* amount; each of the six never raises SymbolError and returns a value
\* for every finite amount, while for a NaN or infinite amount the three
\* symbols that end in int() raise ValueError or OverflowError.
C8_SixSymbolsReturnOnFinite ==
    call.fn = "amount_converter" =>
        IF call.args[2] \notin {"BTM2mBTM", "BTM2NEU", "mBTM2BTM", "mBTM2NEU", "NEU2BTM",
                                "NEU2mBTM"}
        THEN call.out.kind = "raise" /\ call.out.exc = "SymbolError"
        ELSE /\ call.out.kind = "raise" => call.out.exc # "SymbolError"
             /\ call.args[1].py \in {"int", "float"} => call.out.kind = "return"
             /\ /\ call.args[1].py \in {"nan", "inf"}
                /\ call.args[2] \in {"BTM2NEU", "mBTM2NEU", "NEU2mBTM"}
                => /\ call.out.kind = "raise"
                   /\ call.out.exc = IF call.args[1].py = "nan" THEN "ValueError"
                                     ELSE "OverflowError"

\* NaN converted with one of the six symbols: int() raised ValueError.
C8_Witness ==
    /\ call.fn = "amount_converter"
    /\ call.args = <<PyNan, "BTM2NEU">>
    /\ call.out.kind = "raise"
    /\ call.out.exc = "ValueError"

\* C9: the refund command hands build_transaction int(amount) when the
\* unit is NEU and the converter's result for "<unit>2NEU" otherwise; when
\* that raises, the command prints one "Error: ..." line and builds
\* nothing.
C9_RefundHandsBuilderNEU ==
    cli.cmd = "vapor refund" /\ cli.pc = "exited" =>
        LET want == IF cli.unit = "NEU" THEN IntResults[cli.amount]
                    ELSE ConverterResults[cli.amount, cli.unit \o "2NEU"]
        IN  IF want.kind = "return"
            THEN cli.built = <<want.value>>
            ELSE /\ cli.built = <<>>
                 /\ Len(cli.lines) = 1
                 /\ cli.lines[1].text[1] = "Error: "

\* C10 as stated: is_network is True for the three networks, False for
\* every other string, TypeError for a non-string; is_address raises
\* NetworkError for every network that is neither None nor one of the
\* three, and with None hands the decision to the address checker.
C10_NetworkErrorForEveryOtherNetwork ==
    /\ call.fn = "is_network" =>
          IF call.args[1].py = "str"
          THEN call.out = Return(call.args[1].s \in {"mainnet", "solonet", "testnet"})
          ELSE call.out.kind = "raise" /\ call.out.exc = "TypeError"
    /\ call.fn = "is_address" =>
          IF call.args[2].py = "NoneType"
          THEN /\ call.out = Return(call.args[3])
               /\ ext = <<[address |-> call.args[1], network |-> "absent", vapor |-> TRUE]>>
          ELSE ~(call.args[2].py = "str"
                    /\ call.args[2].s \in {"mainnet", "solonet", "testnet"})
               => call.out.kind = "raise" /\ call.out.exc = "NetworkError"

\* C10, amended: is_network as stated; is_address raises NetworkError for
\* every string network that is not one of the three and TypeError for a
\* network that is neither None nor a string, consulting the address
\* checker in neither case; with None it hands the decision to the
\* address checker without a network.
C10_NetworkErrorForOtherStrings ==
    /\ call.fn = "is_network" =>
          IF call.args[1].py = "str"
          THEN call.out = Return(call.args[1].s \in {"mainnet", "solonet", "testnet"})
          ELSE call.out.kind = "raise" /\ call.out.exc = "TypeError"
    /\ call.fn = "is_address" =>
          IF call.args[2].py = "NoneType"
          THEN /\ call.out = Return(call.args[3])
               /\ ext = <<[address |-> call.args[1], network |-> "absent", vapor |-> TRUE]>>
          ELSE IF call.args[2].py # "str"
          THEN call.out.kind = "raise" /\ call.out.exc = "TypeError" /\ ext = <<>>
          ELSE call.args[2].s \notin {"mainnet", "solonet", "testnet"}
               => call.out.kind = "raise" /\ call.out.exc = "NetworkError" /\ ext = <<>>

\* is_address refusing the wrong-case "Mainnet" with NetworkError, the
\* address checker not consulted.
C10_Witness ==
    /\ call.fn = "is_address"
    /\ call.args[2] = PyStr("Mainnet")
    /\ call.out.kind = "raise"
    /\ call.out.exc = "NetworkError"
    /\ ext = <<>>

\* C11: once the request of a complete valid raw was sent and answered,
\* submit_transaction_raw raises APIError(msg, code) when the body's code
\* is not 200 and otherwise returns the envelope's fee, type and network
\* with the response's tx_hash as transaction_id; decode_transaction_raw
\* raises APIError whenever the answer is a failure (an HTTP error status)
\* and returns a result only for a successful answer.
C11_RemoteFailuresSurfaceAsAPIError ==
    /\ /\ call.fn = "submit_transaction_raw"
       /\ sent # <<>>
       /\ call.args[2].kind = "response"
       /\ call.args[2].body.t = "obj"
       /\ "code" \in DOMAIN call.args[2].body.f
       => IF call.args[2].body.f["code"] # JNum(200)
          THEN "msg" \in DOMAIN call.args[2].body.f =>
                  /\ call.out.kind = "raise"
                  /\ call.out.exc = "APIError"
                  /\ call.out.msg = <<call.args[2].body.f["msg"], call.args[2].body.f["code"]>>
          ELSE "data" \in DOMAIN call.args[2].body.f =>
                  /\ call.out.kind = "return"
                  /\ call.out.value.transaction_id = call.args[2].body.f["data"].f["tx_hash"]
                  /\ \A k \in {"fee", "type", "network"} :
                        call.out.value[k] = call.args[1].payload.doc.f[k]
    /\ /\ call.fn = "decode_transaction_raw"
       /\ sent # <<>>
       /\ call.args[2].kind = "response"
       => /\ call.args[2].status_code >= 400 =>
                call.out.kind = "raise" /\ call.out.exc = "APIError"
          /\ call.out.kind = "return" => call.args[2].status_code < 400

\* The converter applied to the value a first conversion returned.
Again(first, symbol) ==
    IF first.kind = "raise" THEN first ELSE amount_converter(first.value, symbol)

\* NEU to mBTM and back to NEU; mBTM to NEU and back to mBTM.
NEURoundTrip ==
    [n \in IntAmounts |-> Again(ConverterResults[n, "NEU2mBTM"], "mBTM2NEU")]

mBTMRoundTrip ==
    [m \in IntAmounts |-> Again(ConverterResults[m, "mBTM2NEU"], "NEU2mBTM")]

\* C12: on every whole amount n, NEU2mBTM returns floor(n / 100_000), the
\* round trip NEU -> mBTM -> NEU returns n when n is a multiple of 100_000
\* and less than n otherwise, and the round trip mBTM -> NEU -> mBTM
\* returns the amount it started from.
C12_NEU2mBTMFloors ==
    call.fn = "amount_converter" /\ call.args[1].py = "int" =>
        /\ call.args[2] = "NEU2mBTM" =>
              /\ call.out = Return(PyInt(DivMod(call.args[1].m, <<0, 10>>).q))
              /\ NEURoundTrip[call.args[1]].kind = "return"
              /\ NEURoundTrip[call.args[1]].value.py = "int"
              /\ IF DivMod(call.args[1].m, <<0, 10>>).r = <<>>
                 THEN NEURoundTrip[call.args[1]].value = call.args[1]
                 ELSE Cmp(NEURoundTrip[call.args[1]].value.m, call.args[1].m) < 0
        /\ call.args[2] = "mBTM2NEU" =>
              mBTMRoundTrip[call.args[1]] = Return(call.args[1])
====
